---------------------------- MODULE Spec2Model ----------------------------
(***************************************************************************)
(* The two scripts of github_trending:                                     *)
(*   github_trending_tracker.py  - the history tracker (load history,      *)
(*       fetch, keep what is new, save history, send one message);         *)
(*   github-trending-scraper.py  - the stateless weekly snapshot (fetch,   *)
(*       dump to JSON, send in parts of ten).                              *)
(* One behaviour is a sequence of runs of one of the scripts, started one  *)
(* after the other by an external scheduler.  The HTTP client is modelled  *)
(* by the response it returns (status code and, for the trending page, the *)
(* article blocks of the markup).                                          *)
(*                                                                         *)
(* Encodings.  A repository identifier ("owner/name") is a number of Ids.  *)
(* An article block is [href, variant]: href = 0 is an article without an  *)
(* "h2 a" link; variant = 0 is an article without description paragraph,   *)
(* language span and star link; variant v > 0 is a full article whose      *)
(* displayed description, language and star count are those of version v.  *)
(* A Python dict is the sequence of its <<key, value>> items in insertion  *)
(* order.  datetime.now() is the number of the run.                        *)
(***************************************************************************)
EXTENDS Integers, Sequences, FiniteSets, TLC

\* ------------------------------------------------------------------ bounds
\* Articles of an arbitrary trending page.
MaxBlocks == 2
\* Articles of the longest page (of distinct repositories).
MaxLong == 21
\* Runs the scheduler starts.
MaxRuns == 2

\* Repositories per Telegram message (github-trending-scraper.py, line 135).
PerMessage == 10

\* The repositories of the arbitrary pages, and the versions of what an
\* article displays.
SmallIds == {1, 2}
Variants == {0, 1}

\* ------------------------------------------------------------- the markup
Blocks == {[href |-> 0, variant |-> 0]} \cup [href : SmallIds, variant : Variants]

RECURSIVE SeqsUpTo(_, _)
SeqsUpTo(S, n) ==
  IF n = 0 THEN {<<>>}
  ELSE LET shorter == SeqsUpTo(S, n - 1)
       IN shorter \cup {Append(s, x) : s \in {t \in shorter : Len(t) = n - 1}, x \in S}

SmallPages == SeqsUpTo(Blocks, MaxBlocks)

LongPage(n) == [i \in 1..n |-> [href |-> i, variant |-> 1]]

LongLens == {PerMessage, PerMessage + 1, 2 * PerMessage, MaxLong}

Pages == SmallPages \cup {LongPage(n) : n \in LongLens}

\* What requests.get returns: the status code and the articles of the body.
Responses ==
  [status : {200}, blocks : Pages] \cup [status : {404, 500}, blocks : {<<>>}]

\* What requests.post to the bot API returns.
PostStatuses == {200, 400}

\* ------------------------------------------------------------ Python dict
EmptyItems == <<>>

DictKeys(items) == {items[i][1] : i \in 1..Len(items)}

DictHas(items, k) == \E i \in 1..Len(items) : items[i][1] = k

DictGet(items, k) == items[CHOOSE i \in 1..Len(items) : items[i][1] = k][2]

\* d[k] = v : replaces the value of a known key, appends an unknown key.
DictSet(items, k, v) ==
  IF DictHas(items, k)
  THEN [i \in 1..Len(items) |-> IF items[i][1] = k THEN <<k, v>> ELSE items[i]]
  ELSE Append(items, <<k, v>>)

\* --------------------------------------------------------- the JSON file
\* json.dump writes the items of the object in order.
JsonDump(value) == value

\* json.load builds the dict item by item: a repeated key keeps its last value.
RECURSIVE JsonLoadItems(_, _)
JsonLoadItems(text, acc) ==
  IF text = <<>> THEN acc
  ELSE JsonLoadItems(Tail(text), DictSet(acc, Head(text)[1], Head(text)[2]))

NoFile == [kind |-> "missing", items |-> EmptyItems]
EmptyDict == [kind |-> "dict", items |-> EmptyItems]

\* load_history: a missing file and a file json cannot decode give {}; anything
\* json decodes is returned as it is (an object, a list, null).
load_history(f) ==
  IF f.kind = "missing" THEN EmptyDict
  ELSE IF f.kind = "garbage" THEN EmptyDict
  ELSE [kind |-> f.kind, items |-> JsonLoadItems(f.items, EmptyItems)]

save_history(h) == [kind |-> h.kind, items |-> JsonDump(h.items)]


\* ------------------------------------------------------------------ state
VARIABLES
  script,         \* which script the scheduler runs: "tracker" or "scraper"
  token,          \* TELEGRAM_BOT_TOKEN is set in the environment
  file,           \* github_trending_history.json
  repos_json,     \* github_trending_repos.json (the scraper's dump)
  pc,             \* where the running process is
  run,            \* number of runs started; the clock of datetime.now()
  history,        \* tracker main: history
  fetched,        \* the response of the last GET
  current_repos,  \* tracker main: current_repos
  new_repos,      \* tracker main: new_repos
  trending_repos, \* scraper main: trending_repos (None, or the list)
  message,        \* scraper main: message
  i,              \* scraper main: the loop index i
  calls,          \* the calls of send_to_telegram of this run, in order
  file0,          \* history variable: the file as this run found it
  last,           \* between two runs: whether the next run will be served the
                  \* response of the run that ended, and how that run ended
  repeat,         \* history variable: this run fetched what the previous run,
                  \* which completed, had fetched; and how that run ended
  announced,      \* history variable: identifiers sent in a tracker message
  reannounced     \* history variable: an identifier was sent by two runs

vars == <<script, token, file, repos_json, pc, run, history, fetched,
          current_repos, new_repos, trending_repos, message, i, calls, file0,
          last, repeat, announced, reannounced>>

\* ------------------------------------------------- the tracker's functions
\* The dict appended for one article (tracker lines 47-67).
TrackerRecord(b, now) ==
  [repo |-> b.href, description |-> b.variant, language |-> b.variant,
   stars |-> b.variant, first_seen |-> now]

\* fetch_trending_repos: [] unless the status is 200; articles without a link
\* are skipped (line 46).
fetch_trending_repos(resp, now) ==
  IF resp.status # 200 THEN <<>>
  ELSE LET linked == SelectSeq(resp.blocks, LAMBDA b : b.href # 0)
       IN [k \in 1..Len(linked) |-> TrackerRecord(linked[k], now)]

\* Variants of Classify: without the membership test; without the insertion;
\* with the record of a known repository refreshed.
ClassifyEverythingNew(items, new, repo) ==
  [items |-> DictSet(items, repo.repo, repo), new |-> Append(new, repo)]

ClassifyWithoutRecording(items, new, repo) ==
  IF ~DictHas(items, repo.repo)
  THEN [items |-> items, new |-> Append(new, repo)]
  ELSE [items |-> items, new |-> new]

ClassifyAndRefresh(items, new, repo) ==
  IF ~DictHas(items, repo.repo)
  THEN [items |-> Append(items, <<repo.repo, repo>>), new |-> Append(new, repo)]
  ELSE [items |-> DictSet(items, repo.repo, repo), new |-> new]

\* The body of the loop of main (lines 145-148) on a dict.
Classify(items, new, repo) ==
  IF ~DictHas(items, repo.repo)
  THEN [items |-> DictSet(items, repo.repo, repo), new |-> Append(new, repo)]
  ELSE [items |-> items, new |-> new]

\* The loop of main (lines 143-148).  On null, "repo_name not in history" raises
\* TypeError; on a list (the file held []), the test is true and
\* "history[repo_name] = repo" raises TypeError.
RECURSIVE FindNew(_, _, _)
FindNew(repos, h, new) ==
  IF repos = <<>> THEN [history |-> h, new_repos |-> new, raised |-> FALSE]
  ELSE IF h.kind = "null" THEN [history |-> h, new_repos |-> new, raised |-> TRUE]
  ELSE IF h.kind = "list"
       THEN [history |-> h, new_repos |-> Append(new, Head(repos)), raised |-> TRUE]
  ELSE LET c == Classify(h.items, new, Head(repos))
       IN FindNew(Tail(repos), [kind |-> "dict", items |-> c.items], c.new)

\* format_repos_for_telegram (lines 112-130): one message, whatever the number
\* of repositories.
format_repos_for_telegram(repos, today) ==
  IF repos = <<>>
  THEN [header |-> "none", date |-> today, entries |-> <<>>, total |-> 0]
  ELSE [header |-> "new", date |-> today,
        entries |-> [k \in 1..Len(repos) |->
                       [rank |-> k, name |-> repos[k].repo,
                        language |-> repos[k].language, stars |-> repos[k].stars,
                        description |-> repos[k].description]],
        total |-> Len(repos)]

\* send_to_telegram of the tracker (lines 96-110): the POST is issued with
\* whatever token the configuration holds, None included.
tracker_send_to_telegram(msg, tok, status) ==
  [msg |-> msg, posted |-> TRUE, status |-> status]

Success(call) == call.posted /\ call.status = 200

\* What main does with the value send_to_telegram returns: it logs it (tracker
\* lines 161-164) or drops it (scraper lines 143, 154, 160), and goes on.
\* (Variant: a failed send ends the run.)
StopsOnFailure(sent_ok) == sent_ok

GoesOn(sent_ok) == TRUE

\* ------------------------------------------------------------ the tracker
NoRepeat == [same |-> FALSE, sendFailed |-> FALSE, reported |-> 0]

NoResponse == [status |-> 0, blocks |-> <<>>]

NoLast == [again |-> FALSE, completed |-> FALSE, fetched |-> NoResponse,
           sendFailed |-> FALSE, reported |-> 0]

Ended == pc \in {"idle", "exited"}

\* main, lines 134-140: a new process; the configuration, the history, the
\* fetch.
TrackerStart ==
  /\ script = "tracker"
  /\ Ended
  /\ run < MaxRuns
  /\ run' = run + 1
  /\ history' = load_history(file)
  /\ file0' = file
  /\ \E resp \in (IF last.again THEN {last.fetched} ELSE Responses) :
       /\ fetched' = resp
       /\ current_repos' = fetch_trending_repos(resp, run + 1)
       /\ repeat' = IF last.again /\ last.completed
                    THEN [same |-> TRUE, sendFailed |-> last.sendFailed,
                          reported |-> last.reported]
                    ELSE NoRepeat
  /\ last' = NoLast
  /\ pc' = "diff"
  /\ UNCHANGED <<trending_repos, script, token, file, repos_json, new_repos,
                 calls, message, i, announced, reannounced>>

\* main, lines 143-148.
TrackerDiff ==
  /\ script = "tracker"
  /\ pc = "diff"
  /\ LET r == FindNew(current_repos, history, <<>>)
     IN /\ history' = r.history
        /\ new_repos' = r.new_repos
        /\ pc' = IF r.raised THEN "crashed" ELSE "save"
  /\ UNCHANGED <<last, trending_repos, script, token, file, repos_json, run,
                 fetched, current_repos, message, i, calls, file0, repeat,
                 announced, reannounced>>

\* Variant of TrackerSave: the history is not written before the send.
TrackerForgetsToSave ==
  /\ script = "tracker"
  /\ pc = "save"
  /\ pc' = "notify"
  /\ UNCHANGED <<last, trending_repos, script, token, file, repos_json, run,
                 history, fetched, current_repos, new_repos, message, i, calls,
                 file0, repeat, announced, reannounced>>

\* main, line 151.
TrackerSave ==
  /\ script = "tracker"
  /\ pc = "save"
  /\ file' = save_history(history)
  /\ pc' = "notify"
  /\ UNCHANGED <<last, trending_repos, script, token, repos_json, run, history,
                 fetched, current_repos, new_repos, message, i, calls, file0,
                 repeat, announced, reannounced>>

\* main, lines 154-166: format, send, log; len(history) of line 166 raises
\* TypeError on null.
TrackerNotify ==
  /\ script = "tracker"
  /\ pc = "notify"
  /\ \E status \in PostStatuses :
       LET msg == format_repos_for_telegram(new_repos, run)
           call == tracker_send_to_telegram(msg, token, status)
           sent == {msg.entries[k].name : k \in 1..Len(msg.entries)}
       IN /\ calls' = <<call>>
          /\ announced' = announced \cup sent
          /\ reannounced' = (reannounced \/ sent \cap announced # {})
          /\ pc' = IF ~GoesOn(Success(call)) THEN "crashed"
                   ELSE IF history.kind = "null" THEN "crashed"
                   ELSE "done"
  /\ UNCHANGED <<last, trending_repos, script, token, file, repos_json, run,
                 history, fetched, current_repos, new_repos, message, i, file0,
                 repeat>>


\* ------------------------------------------------- the scraper's functions
None == [none |-> TRUE, repos |-> <<>>]

\* The dict appended for one article (scraper lines 53-68); 0 stands for the
\* placeholder description.
ScraperRecord(b) == [name |-> b.href, url |-> b.href, description |-> b.variant]

\* scrape_github_trending: None unless the status is 200; an article without a
\* link raises in line 54 and is skipped by the except of line 70.
scrape_github_trending(resp) ==
  IF resp.status # 200 THEN None
  ELSE LET linked == SelectSeq(resp.blocks, LAMBDA b : b.href # 0)
       IN [none |-> FALSE,
           repos |-> [k \in 1..Len(linked) |-> ScraperRecord(linked[k])]]

\* "trending_repos is not None and trending_repos" (line 116).
Truthy(t) == ~t.none /\ t.repos # <<>>

NoMessage == [header |-> "", date |-> 0, entries |-> <<>>, total |-> 0]
WeeklyHeader == [header |-> "weekly", date |-> 0, entries |-> <<>>, total |-> 0]
Continuation == [header |-> "continued", date |-> 0, entries |-> <<>>, total |-> 0]

\* Lines 136-137 and 148-149.
AddEntry(msg, k, repo) ==
  [msg EXCEPT !.entries =
     Append(@, [rank |-> k, url |-> repo.url, name |-> repo.name,
                description |-> repo.description])]

\* send_to_telegram of the scraper (lines 76-104): ValueError before the POST
\* when there is no token.
scraper_send_to_telegram(msg, tok, status) ==
  IF ~tok THEN [msg |-> msg, posted |-> FALSE, status |-> 0]
  ELSE [msg |-> msg, posted |-> TRUE, status |-> status]

Raised(call) == ~call.posted

Aborts(call) == Raised(call) \/ ~GoesOn(Success(call))

\* The body of the loop of main for index k of n (lines 129-155); s1 and s2 are
\* the statuses the bot API answers to the sends of lines 143 and 154.
LoopBody(k, n, repo, msg, cs, tok, s1, s2) ==
  IF k <= PerMessage
  THEN [message |-> AddEntry(msg, k, repo), calls |-> cs, raised |-> FALSE]
  ELSE LET flush == (k = PerMessage + 1)
           first == scraper_send_to_telegram(msg, tok, s1)
           cs1 == IF flush THEN Append(cs, first) ELSE cs
           m1 == IF flush THEN Continuation ELSE msg
           m2 == AddEntry(m1, k, repo)
           part == (k % PerMessage = 0 \/ k = n)
           second == scraper_send_to_telegram(m2, tok, s2)
           cs2 == IF part THEN Append(cs1, second) ELSE cs1
       IN IF flush /\ Aborts(first)
          THEN [message |-> msg, calls |-> cs1, raised |-> TRUE]
          ELSE IF part /\ Aborts(second)
          THEN [message |-> m2, calls |-> cs2, raised |-> TRUE]
          ELSE [message |-> IF part THEN Continuation ELSE m2, calls |-> cs2,
                raised |-> FALSE]

\* ------------------------------------------------------------ the scraper
\* main, lines 108-126: a new process; scrape, dump, start the first message.
ScraperStart ==
  /\ script = "scraper"
  /\ Ended
  /\ run < MaxRuns
  /\ run' = run + 1
  /\ \E resp \in Responses :
       LET t == scrape_github_trending(resp)
       IN /\ fetched' = resp
          /\ trending_repos' = t
          /\ IF Truthy(t)
             THEN /\ repos_json' = t.repos
                  /\ message' = WeeklyHeader
                  /\ i' = 1
                  /\ pc' = "loop"
             ELSE /\ message' = NoMessage
                  /\ i' = 0
                  /\ pc' = "done"
                  /\ UNCHANGED repos_json
  /\ UNCHANGED <<last, script, token, file, history, current_repos, new_repos,
                 calls, file0, repeat, announced, reannounced>>

\* main, lines 128-155: one turn of the loop.
ScraperIterate ==
  /\ script = "scraper"
  /\ pc = "loop"
  /\ \E s1, s2 \in PostStatuses :
       LET n == Len(trending_repos.repos)
           r == LoopBody(i, n, trending_repos.repos[i], message, calls, token, s1, s2)
       IN /\ message' = r.message
          /\ calls' = r.calls
          /\ pc' = IF r.raised THEN "crashed" ELSE IF i = n THEN "final" ELSE "loop"
          /\ i' = IF r.raised \/ i = n THEN i ELSE i + 1
  /\ UNCHANGED <<last, script, token, file, repos_json, run, history, fetched,
                 current_repos, new_repos, trending_repos, file0, repeat,
                 announced, reannounced>>

\* main, lines 157-162.
ScraperFinal ==
  /\ script = "scraper"
  /\ pc = "final"
  /\ \E status \in PostStatuses :
       LET call == scraper_send_to_telegram(message, token, status)
       IN IF Len(trending_repos.repos) <= PerMessage
          THEN /\ calls' = Append(calls, call)
               /\ pc' = IF Aborts(call) THEN "crashed" ELSE "done"
          ELSE /\ pc' = "done"
               /\ UNCHANGED calls
  /\ UNCHANGED <<last, script, token, file, repos_json, run, history, fetched,
                 current_repos, new_repos, trending_repos, message, i, file0,
                 repeat, announced, reannounced>>

\* ------------------------------------------------------------ process exit
\* Lines 169-170 of the tracker, 167-168 of the scraper: main has returned or
\* raised, the process ends and its memory is gone; the files stay.  The
\* trending page either is the same at the next run (again) or is any page;
\* only in the first case is the ended run remembered.
ProcessExit ==
  /\ pc \in {"done", "crashed"}
  /\ pc' = "exited"
  /\ \E again \in BOOLEAN :
       last' = IF again /\ script = "tracker"
               THEN [again |-> TRUE, completed |-> pc = "done", fetched |-> fetched,
                     sendFailed |-> calls # <<>> /\ ~Success(calls[Len(calls)]),
                     reported |-> Len(new_repos)]
               ELSE NoLast
  /\ history' = EmptyDict
  /\ fetched' = NoResponse
  /\ current_repos' = <<>>
  /\ new_repos' = <<>>
  /\ trending_repos' = None
  /\ message' = NoMessage
  /\ i' = 0
  /\ calls' = <<>>
  /\ file0' = file
  /\ repeat' = NoRepeat
  /\ UNCHANGED <<script, token, file, repos_json, run, announced, reannounced>>

\* ------------------------------------------------------ the specification
\* The history file a first run can find: none, one json cannot decode, null,
\* [], or what an earlier run (at time 0) saved.
EarlierRun(page) ==
  save_history(
    FindNew(fetch_trending_repos([status |-> 200, blocks |-> page], 0),
            EmptyDict, <<>>).history)

InitFiles ==
  {NoFile,
   [kind |-> "garbage", items |-> EmptyItems],
   [kind |-> "null", items |-> EmptyItems],
   [kind |-> "list", items |-> EmptyItems]}
  \cup {EarlierRun(page) : page \in SmallPages}

Init ==
  /\ script \in {"tracker", "scraper"}
  /\ token \in BOOLEAN
  /\ file \in (IF script = "tracker" THEN InitFiles ELSE {NoFile})
  /\ repos_json = <<>>
  /\ pc = "idle"
  /\ run = 0
  /\ history = EmptyDict
  /\ fetched = NoResponse
  /\ current_repos = <<>>
  /\ new_repos = <<>>
  /\ trending_repos = None
  /\ message = NoMessage
  /\ i = 0
  /\ calls = <<>>
  /\ file0 = file
  /\ last = NoLast
  /\ repeat = NoRepeat
  /\ announced = {}
  /\ reannounced = FALSE

Next ==
  \/ TrackerStart
  \/ TrackerDiff
  \/ TrackerSave
  \/ TrackerNotify
  \/ ScraperStart
  \/ ScraperIterate
  \/ ScraperFinal
  \/ ProcessExit

Spec == Init /\ [][Next]_vars


\* ================================================================ claims
Tracker == script = "tracker"
Scraper == script = "scraper"

\* The tracker has fetched in this run.
Fetched == Tracker /\ pc \in {"diff", "save", "notify", "done", "crashed"}

\* The mapping this run loaded.
Loaded == load_history(file0)

\* The identifiers of the page this run fetched.
PageIds ==
  IF fetched.status # 200 THEN {}
  ELSE {fetched.blocks[k].href : k \in 1..Len(fetched.blocks)} \ {0}

\* A file that holds a history, no file yet, or a file json cannot decode.
HoldsHistory(f) == f.kind \in {"missing", "garbage", "dict"}

Unique(items) ==
  \A a, b \in 1..Len(items) : items[a][1] = items[b][1] => a = b

Entries(call) == call.msg.entries

\* ---------------------------------------------------------------- C1
\* C1: a tracker run that starts from a persisted history (or none, or an
\* undecodable file, which load as the empty history) completes,
\* reports N new repositories and leaves N more entries in the file, N being
\* the number of distinct identifiers of the page that the history did not
\* hold; the run after it, on the same fetched content, reports 0 and leaves
\* the number of entries as it was.
C1_TwoRunsIdempotent ==
  (Tracker /\ HoldsHistory(file0)) =>
     /\ pc # "crashed"
     /\ pc = "done" =>
          LET N == Cardinality(PageIds \ DictKeys(Loaded.items))
          IN /\ Len(new_repos) = N
             /\ file.kind = "dict"
             /\ Len(file.items) = Len(Loaded.items) + N
             /\ repeat.same => /\ Len(new_repos) = 0
                            /\ Len(file.items) = Len(Loaded.items)

\* A second run on the page of a first run that reported new repositories.
C1_Witness ==
  /\ Tracker /\ pc = "done" /\ HoldsHistory(file0)
  /\ repeat.same /\ repeat.reported > 0 /\ new_repos = <<>>

\* ---------------------------------------------------------------- C3
\* C3: the history file only grows and what it holds is frozen: a step never
\* removes an identifier from the file nor changes the record (first_seen
\* included) the file maps it to, and no identifier is in the file twice.
C3_AppendOnlyFrozen ==
  [][/\ Unique(file.items)
     /\ Unique(file'.items)
     /\ \A k \in 1..Len(file.items) :
          /\ DictHas(file'.items, file.items[k][1])
          /\ DictGet(file'.items, file.items[k][1]) = file.items[k][2]]_vars

\* A run has saved after fetching a known repository with other stars.
C3_Witness ==
  /\ Tracker /\ pc = "done" /\ file0.kind = "dict"
  /\ \E k \in 1..Len(current_repos) :
       /\ DictHas(file0.items, current_repos[k].repo)
       /\ DictGet(file0.items, current_repos[k].repo).stars # current_repos[k].stars
       /\ DictGet(file.items, current_repos[k].repo)
            = DictGet(file0.items, current_repos[k].repo)

\* ---------------------------------------------------------------- C8
RECURSIVE Pick(_, _, _)
Pick(seq, keep, k) ==
  IF k > Len(seq) THEN <<>>
  ELSE (IF k \in keep THEN <<seq[k]>> ELSE <<>>) \o Pick(seq, keep, k + 1)

\* The positions of the extracted records whose identifier the loaded history
\* does not hold and no earlier record of the page has.
FirstSeenAt ==
  {k \in 1..Len(current_repos) :
     /\ ~DictHas(Loaded.items, current_repos[k].repo)
     /\ \A j \in 1..(k - 1) : current_repos[j].repo # current_repos[k].repo}

\* C8: once the loop of main has ended, new_repos is the subsequence of
\* current_repos, in page order, of the records whose identifier was not in
\* the mapping when the record was processed (not in the loaded history, not
\* earlier on the page), and the mapping holds every extracted identifier.
C8_DiffIsOrderedSubsequence ==
  (Tracker /\ pc \in {"save", "notify", "done"}) =>
     /\ new_repos = Pick(current_repos, FirstSeenAt, 1)
     /\ \A k \in 1..Len(current_repos) :
          DictHas(history.items, current_repos[k].repo)

\* A page with the same new repository twice, reported once.
C8_Witness ==
  /\ Tracker /\ pc = "save"
  /\ Len(current_repos) = 2 /\ Len(new_repos) = 1
  /\ current_repos[1].repo = current_repos[2].repo

\* ---------------------------------------------------------------- C10
\* C10: when the tracker sends, the file already holds the updated history
\* (every repository of the message included); no identifier is sent by two
\* runs; and the run after a failed send, on the same page, reports nothing.
C10_SavedBeforeSend ==
  Tracker =>
     /\ calls # <<>> =>
          /\ file = save_history(history)
          /\ \A k \in 1..Len(new_repos) : DictHas(file.items, new_repos[k].repo)
     /\ ~reannounced
     /\ (pc = "done" /\ repeat.same /\ repeat.sendFailed) => new_repos = <<>>

\* The run after a failed send of new repositories, on the same page.
C10_Witness ==
  /\ Tracker /\ pc = "done" /\ repeat.same
  /\ repeat.sendFailed /\ repeat.reported > 0
  /\ calls # <<>> /\ Entries(calls[1]) = <<>>

\* ---------------------------------------------------------------- C7
\* The k-th message of the scraper for its list: ten repositories a message.
Chunk(k) ==
  LET repos == trending_repos.repos
      from == (k - 1) * PerMessage
      size == IF Len(repos) - from < PerMessage THEN Len(repos) - from
              ELSE PerMessage
  IN [header |-> IF k = 1 THEN "weekly" ELSE "continued", date |-> 0,
      entries |-> [j \in 1..size |->
                     [rank |-> from + j, url |-> repos[from + j].url,
                      name |-> repos[from + j].name,
                      description |-> repos[from + j].description]],
      total |-> 0]

NumChunks == (Len(trending_repos.repos) + PerMessage - 1) \div PerMessage

\* C7: a send that fails does not stop the run and is not repeated.  In the
\* scraper the calls of send_to_telegram are at every moment the first
\* messages of the batch, one call each, in order; a run with a token never
\* aborts and ends with every message sent.  The tracker ends with its one
\* message sent once.
C7_EveryMessageSentOnce ==
  /\ (Scraper /\ pc \in {"loop", "final", "done", "crashed"}) =>
       /\ Len(calls) <= NumChunks
       /\ \A k \in 1..Len(calls) : calls[k].msg = Chunk(k)
       /\ pc = "done" => Len(calls) = NumChunks
       /\ token => pc # "crashed"
  /\ (Tracker /\ pc = "done") =>
       /\ Len(calls) = 1
       /\ calls[1].msg = format_repos_for_telegram(new_repos, run)

\* A scraper run that sent a second message after the first one failed.
C7_Witness ==
  /\ Scraper /\ pc = "done" /\ Len(calls) >= 2
  /\ calls[1].posted /\ calls[1].status # 200
  /\ calls[2].posted

\* ---------------------------------------------------------------- C2
\* C2 (as claimed): after a fetch that did not return 200 the tracker run
\* does not raise, and ends with the history it found.
C2_FailedFetchLeavesHistory ==
  (Fetched /\ fetched.status # 200) =>
     /\ pc # "crashed"
     /\ pc = "done" => load_history(file) = Loaded

\* ---------------------------------------------------------------- C4
\* C4 (as claimed): a run with nothing new to report ends with exactly one
\* message sent, the one that says there is nothing new.
C4_EmptyRunSendsOneMessage ==
  (pc = "done" /\ (IF Tracker THEN new_repos = <<>> ELSE ~Truthy(trending_repos))) =>
     /\ Len(calls) = 1
     /\ calls[1].msg.header = "none"

\* ---------------------------------------------------------------- C5
\* C5 (as claimed): no message holds more than ten records, and a run with
\* n >= 1 records to send ends with ceil(n / 10) messages.
C5_AtMostTenPerMessage ==
  /\ \A k \in 1..Len(calls) : Len(Entries(calls[k])) <= PerMessage
  /\ pc = "done" =>
       LET n == IF Tracker THEN Len(new_repos) ELSE Len(trending_repos.repos)
       IN n >= 1 => Len(calls) = (n + PerMessage - 1) \div PerMessage

\* ---------------------------------------------------------------- C6
\* C6 (as claimed): without a token no POST to the message API is issued.
C6_NoPostWithoutToken ==
  ~token => \A k \in 1..Len(calls) : ~calls[k].posted

\* ---------------------------------------------------------------- C9
\* C9 (as claimed): a file that does not hold a history mapping is loaded as
\* the empty mapping, and the run does not raise.
C9_LoadFailsSoft ==
  (Fetched /\ file0.kind # "dict") =>
     /\ pc = "diff" => history = EmptyDict
     /\ pc # "crashed"

=============================================================================
